---- MODULE Spec2Model ----
(***************************************************************************)
(* A model of the fork-join loop runner igl::parallel_for with its         *)
(* thread-count singleton igl::default_num_threads, and of the             *)
(* vcg::tri::OpenVDBAdapter mesh <-> volume conversion object.             *)
(***************************************************************************)
EXTENDS Integers, Sequences, FiniteSets, TLC

\* ------------------------------------------------------------------ bounds
\* Largest loop_size handed to parallel_for.
MaxLoopSize == 5
\* Largest value std::thread::hardware_concurrency() reports.
MaxHardware == 4
\* Largest explicit override handed to default_num_threads.
MaxUser == 3

\* min_parallel values handed to parallel_for (0 is the default argument).
MinParallelValues == {0, 3}

\* --------------------------------------------------- the process environment
\* getenv("IGL_NUM_THREADS"): a null pointer (isset = FALSE) or a C string,
\* held as the sequence of its characters.
NoEnv == [isset |-> FALSE, str |-> <<>>]

EnvStr(s) == [isset |-> TRUE, str |-> s]

EnvValues ==
    {NoEnv} \cup
    { EnvStr(s) : s \in { <<>>, <<"0">>, <<"2">>, <<"0", "3">>, <<"-", "3">>,
                          <<"2", "x">>, <<" ", "2">>, <<"x", "3">>, <<"+", "3">> } }

\* ------------------------------------------------------------------- atoi
IsSpace(c) == c \in {" ", "\t", "\n"}

IsDigit(c) == c \in {"0", "1", "2", "3", "4", "5", "6", "7", "8", "9"}

DigitVal(c) ==
    CASE c = "0" -> 0 [] c = "1" -> 1 [] c = "2" -> 2 [] c = "3" -> 3
      [] c = "4" -> 4 [] c = "5" -> 5 [] c = "6" -> 6 [] c = "7" -> 7
      [] c = "8" -> 8 [] c = "9" -> 9

RECURSIVE SkipSpace(_)
SkipSpace(s) ==
    IF s # <<>> /\ IsSpace(Head(s)) THEN SkipSpace(Tail(s)) ELSE s

RECURSIVE AtoiDigits(_, _)
AtoiDigits(s, acc) ==
    IF s = <<>> \/ ~IsDigit(Head(s))
    THEN acc
    ELSE AtoiDigits(Tail(s), acc * 10 + DigitVal(Head(s)))

\* atoi: leading white space, an optional sign, then the longest run of digits;
\* 0 when there is no digit.
Atoi(s) ==
    LET r == SkipSpace(s) IN
    IF r = <<>> THEN 0
    ELSE IF Head(r) = "-" THEN 0 - AtoiDigits(Tail(r), 0)
    ELSE IF Head(r) = "+" THEN AtoiDigits(Tail(r), 0)
    ELSE AtoiDigits(r, 0)

\* ------------------------------------------------------------ small helpers
Min(a, b) == IF a < b THEN a ELSE b

Max(a, b) == IF a > b THEN a ELSE b

\* std::round(n / static_cast<double>(d)) for n >= 0, d > 0: the nearest
\* integer, halves away from zero.
Round(n, d) == (2 * n + d) \div (2 * d)

\* ceil(n / d) for n >= 0, d > 0.
Ceil(n, d) == (n + d - 1) \div d

VARIABLES
    \* the process
    env,            \* value of getenv("IGL_NUM_THREADS")
    hw,             \* value of std::thread::hardware_concurrency()
    instance,       \* the function-local static MySingleton
    call,           \* the latest call of default_num_threads: argument, result
    \* one parallel_for call
    pc,             \* position of the calling thread
    loop_size, min_parallel, nthreads, slice,
    i1, i2, t,      \* the locals of the spawn loop
    pool,           \* the std::thread objects, in creation order
    joined,         \* number of pool threads joined so far
    acc_t,          \* the accumulate loop's counter
    log,            \* the calls made of prep_func, func and accum_func, in order
    ret             \* the value parallel_for returned: "none", "true" or "false"

pfvars == <<pc, loop_size, min_parallel, nthreads, slice, i1, i2, t, pool,
            joined, acc_t, log, ret>>

procvars == <<env, hw, instance, call>>

VARIABLES
    \* one OpenVDBAdapter object and the caller's output mesh
    mesh,           \* MeshType *m: 0 is nullptr, else the number of an input mesh
    mVtx, mTri, mQuad,  \* the soup buffers
    grid,           \* GridType::Ptr grid: "null", or the kind of volume held
    windingNumber,  \* the oracle: the times it was initialised
    meshDataAdapter,    \* the grid adapter's m and xform: "null" or "bound"
    isovalue, adaptivity, voxelSize,
    outMesh,        \* the mesh handed to volumeToMesh
    status,         \* "running", "aborted" (a failed assert) or "crashed"
    last,           \* the latest operation called and how it ended
    built,          \* a build kernel has returned a volume
    extracted,      \* the extraction kernel has been invoked
    kernelCall      \* the openvdb kernel call the latest operation made

advars == <<mesh, mVtx, mTri, mQuad, grid, windingNumber, meshDataAdapter,
            isovalue, adaptivity, voxelSize, outMesh, status, last, built,
            extracted, kernelCall>>

\* ------------------------------------------------- default_num_threads
FallbackThreads == 8

\* MySingleton with the environment test written env_num_thread >= 0.
MySingleton_envge0(force_num_threads, e, h) ==
    IF force_num_threads # 0 THEN force_num_threads
    ELSE IF e.isset /\ Atoi(e.str) >= 0 THEN Atoi(e.str)
    ELSE IF h # 0 THEN h
    ELSE 8

\* MySingleton::MySingleton(force_num_threads): the value m_num_threads gets.
MySingleton(force_num_threads, e, h) ==
    IF force_num_threads # 0 THEN force_num_threads
    ELSE IF e.isset /\ Atoi(e.str) > 0 THEN Atoi(e.str)
    ELSE IF h # 0 THEN h
    ELSE FallbackThreads

\* instance() rebuilding the singleton whenever an override is passed.
InstanceAfter_override(user_num_threads) ==
    IF instance.constructed /\ user_num_threads = 0 THEN instance
    ELSE [constructed |-> TRUE,
          m_num_threads |-> MySingleton(user_num_threads, env, hw)]

\* MySingleton::instance(force_num_threads): the static is constructed by the
\* first call only.
InstanceAfter(user_num_threads) ==
    IF instance.constructed THEN instance
    ELSE [constructed |-> TRUE,
          m_num_threads |-> MySingleton(user_num_threads, env, hw)]

\* default_num_threads(user_num_threads): the value returned.
default_num_threads(user_num_threads) ==
    InstanceAfter(user_num_threads).m_num_threads

CallRecord(user_num_threads) ==
    [made |-> TRUE,
     user |-> user_num_threads,
     first |-> ~instance.constructed,
     env |-> env,
     hw |-> hw,
     ret |-> default_num_threads(user_num_threads)]

NoCall == [made |-> FALSE, user |-> 0, first |-> FALSE, env |-> NoEnv, hw |-> 0,
           ret |-> 0]

\* A call of default_num_threads by the program, outside parallel_for.
DefaultNumThreadsCall(user_num_threads) ==
    /\ pc = "idle"
    /\ call' = CallRecord(user_num_threads)
    /\ instance' = InstanceAfter(user_num_threads)
    /\ UNCHANGED <<env, hw>>
    /\ UNCHANGED pfvars
    /\ UNCHANGED advars

\* The environment variable is set, changed or unset between calls.
Setenv(e) ==
    /\ pc = "idle"
    /\ e # env
    /\ env' = e
    /\ UNCHANGED <<hw, instance, call>>
    /\ UNCHANGED pfvars
    /\ UNCHANGED advars

\* The reported hardware concurrency changes between calls.
HardwareChange(h) ==
    /\ pc = "idle"
    /\ h # hw
    /\ hw' = h
    /\ UNCHANGED <<env, instance, call>>
    /\ UNCHANGED pfvars
    /\ UNCHANGED advars

\* ------------------------------------------------------------ parallel_for
Prepare(n) == <<"prepare", n>>

Body(i, w) == <<"body", i, w>>

Accumulate(w) == <<"accumulate", w>>

\* for(Index i = 0;i<loop_size;i++) func(i,0);
SerialBodies(n) == [i \in 1..n |-> Body(i - 1, 0)]

\* The slice computed with ceil in place of round.
Slice_ceil(ls, nt) == Max(Ceil(ls + 1, nt), 1)

\* Index slice = std::max((Index)std::round((loop_size+1)/(double)nthreads),(Index)1);
Slice(ls, nt) == Max(Round(ls + 1, nt), 1)

\* A std::thread running range(k1, k2, t); k is the range loop's counter.
Thread(k1, k2, w) == [k1 |-> k1, k2 |-> k2, t |-> w, k |-> k1]

Finished(th) == ~(th.k < th.k2)

\* parallel_for without the early return: loop_size 0 takes the serial branch.
ParallelForEmpty_serial ==
    /\ pc = "idle"
    /\ loop_size' = 0
    /\ \E mp \in MinParallelValues : min_parallel' = mp
    /\ log' = <<Prepare(1), Accumulate(0)>>
    /\ pool' = <<>>
    /\ ret' = "false"
    /\ pc' = "done"
    /\ nthreads' = 0 /\ slice' = 0 /\ i1' = 0 /\ i2' = 0 /\ t' = 0
    /\ joined' = 0 /\ acc_t' = 0
    /\ UNCHANGED procvars
    /\ UNCHANGED advars

\* if(loop_size==0) return false;
ParallelForEmpty ==
    /\ pc = "idle"
    /\ loop_size' = 0
    /\ \E mp \in MinParallelValues : min_parallel' = mp
    /\ log' = <<>>
    /\ pool' = <<>>
    /\ ret' = "false"
    /\ pc' = "done"
    /\ nthreads' = 0 /\ slice' = 0 /\ i1' = 0 /\ i2' = 0 /\ t' = 0
    /\ joined' = 0 /\ acc_t' = 0
    /\ UNCHANGED procvars
    /\ UNCHANGED advars

\* The serial branch taken also when loop_size equals min_parallel.
IsSerial_le(ls, mp, nt) == ls <= mp \/ nt <= 1

\* The condition of the serial branch.
IsSerial(ls, mp, nt) == ls < mp \/ nt <= 1

\* loop_size > 0 and the serial branch: prep_func(1), the loop, accum_func(0).
ParallelForSerial(ls, mp) ==
    /\ pc = "idle"
    /\ ls # 0
    /\ IsSerial(ls, mp, default_num_threads(0))
    /\ loop_size' = ls
    /\ min_parallel' = mp
    /\ nthreads' = default_num_threads(0)
    /\ instance' = InstanceAfter(0)
    /\ call' = CallRecord(0)
    /\ log' = <<Prepare(1)>> \o SerialBodies(ls) \o <<Accumulate(0)>>
    /\ pool' = <<>>
    /\ ret' = "false"
    /\ pc' = "done"
    /\ slice' = 0 /\ i1' = 0 /\ i2' = 0 /\ t' = 0 /\ joined' = 0 /\ acc_t' = 0
    /\ UNCHANGED <<env, hw>>
    /\ UNCHANGED advars

\* loop_size > 0 and the parallel branch, up to the spawn loop: the slice,
\* prep_func(nthreads), the empty pool, the first range extents.
ParallelForBegin(ls, mp) ==
    /\ pc = "idle"
    /\ ls # 0
    /\ ~IsSerial(ls, mp, default_num_threads(0))
    /\ loop_size' = ls
    /\ min_parallel' = mp
    /\ nthreads' = default_num_threads(0)
    /\ instance' = InstanceAfter(0)
    /\ call' = CallRecord(0)
    /\ slice' = Slice(ls, default_num_threads(0))
    /\ log' = <<Prepare(default_num_threads(0))>>
    /\ pool' = <<>>
    /\ i1' = 0
    /\ i2' = Min(0 + Slice(ls, default_num_threads(0)), ls)
    /\ t' = 0
    /\ ret' = "none"
    /\ pc' = "spawn"
    /\ joined' = 0 /\ acc_t' = 0
    /\ UNCHANGED <<env, hw>>
    /\ UNCHANGED advars

\* The condition of the spawn loop.
SpawnCond == t + 1 < nthreads /\ i1 < loop_size

\* The next extent without the clamp to loop_size.
NextExtent_noclamp == i2 + slice

\* i2 = std::min(i2 + slice, loop_size);
NextExtent == Min(i2 + slice, loop_size)

\* One iteration of for (; t+1 < nthreads && i1 < loop_size; ++t).
SpawnSlice ==
    /\ pc = "spawn"
    /\ SpawnCond
    /\ pool' = Append(pool, Thread(i1, i2, t))
    /\ i1' = i2
    /\ i2' = NextExtent
    /\ t' = t + 1
    /\ UNCHANGED <<pc, loop_size, min_parallel, nthreads, slice, joined, acc_t,
                   log, ret>>
    /\ UNCHANGED procvars
    /\ UNCHANGED advars

\* The thread created after the loop, given the worker id 0.
LastThread_id0 == Thread(i1, loop_size, 0)

\* The range of the thread created after the loop.
LastThread == Thread(i1, loop_size, t)

\* After the loop: if (i1 < loop_size) pool.emplace_back(range, i1, loop_size, t);
SpawnLast ==
    /\ pc = "spawn"
    /\ ~SpawnCond
    /\ pool' = IF i1 < loop_size THEN Append(pool, LastThread) ELSE pool
    /\ pc' = "join"
    /\ UNCHANGED <<loop_size, min_parallel, nthreads, slice, i1, i2, t, joined,
                   acc_t, log, ret>>
    /\ UNCHANGED procvars
    /\ UNCHANGED advars

\* One iteration of a worker's for(Index k = k1; k < k2; k++) func(k,t).
WorkerStep(w) ==
    /\ w \in 1..Len(pool)
    /\ ~Finished(pool[w])
    /\ log' = Append(log, Body(pool[w].k, pool[w].t))
    /\ pool' = [pool EXCEPT ![w].k = @ + 1]
    /\ UNCHANGED <<pc, loop_size, min_parallel, nthreads, slice, i1, i2, t,
                   joined, acc_t, ret>>
    /\ UNCHANGED procvars
    /\ UNCHANGED advars

\* A join that does not wait for the thread.
CanJoin_nowait == TRUE

\* Whether t.join() of the next pool thread can return.
CanJoin == Finished(pool[joined + 1])

\* for (std::thread &t : pool) if (t.joinable()) t.join();
Join ==
    /\ pc = "join"
    /\ joined < Len(pool)
    /\ CanJoin
    /\ joined' = joined + 1
    /\ UNCHANGED <<pc, loop_size, min_parallel, nthreads, slice, i1, i2, t, pool,
                   acc_t, log, ret>>
    /\ UNCHANGED procvars
    /\ UNCHANGED advars

JoinDone ==
    /\ pc = "join"
    /\ joined = Len(pool)
    /\ pc' = "accum"
    /\ acc_t' = 0
    /\ UNCHANGED <<loop_size, min_parallel, nthreads, slice, i1, i2, t, pool,
                   joined, log, ret>>
    /\ UNCHANGED procvars
    /\ UNCHANGED advars

\* The bound of the accumulate loop.
AccumBound == nthreads

\* for(size_t t = 0;t<nthreads;t++) accum_func(t);
AccumStep ==
    /\ pc = "accum"
    /\ acc_t < AccumBound
    /\ log' = Append(log, Accumulate(acc_t))
    /\ acc_t' = acc_t + 1
    /\ UNCHANGED <<pc, loop_size, min_parallel, nthreads, slice, i1, i2, t, pool,
                   joined, ret>>
    /\ UNCHANGED procvars
    /\ UNCHANGED advars

\* return true;
ReturnTrue ==
    /\ pc = "accum"
    /\ ~(acc_t < AccumBound)
    /\ ret' = "true"
    /\ pc' = "done"
    /\ UNCHANGED <<loop_size, min_parallel, nthreads, slice, i1, i2, t, pool,
                   joined, acc_t, log>>
    /\ UNCHANGED procvars
    /\ UNCHANGED advars

\* The caller goes on after parallel_for returned; the pool is destroyed.
Return ==
    /\ pc = "done"
    /\ pc' = "idle"
    /\ UNCHANGED <<loop_size, min_parallel, nthreads, slice, i1, i2, t, pool,
                   joined, acc_t, log, ret>>
    /\ UNCHANGED procvars
    /\ UNCHANGED advars

\* ---------------------------------------------------------- OpenVDBAdapter
\* A mesh: its vertices (positions) and its faces (triples of vertex indices,
\* counted from 0).
EmptyMesh == [vert |-> <<>>, face |-> <<>>]

\* The meshes a caller binds with setMesh: an empty one, vertices without
\* faces, one triangle.
InputMeshes ==
    << EmptyMesh,
       [vert |-> << <<0, 0, 0>>, <<1, 0, 0>>, <<0, 1, 0>> >>, face |-> <<>>],
       [vert |-> << <<0, 0, 0>>, <<1, 0, 0>>, <<0, 1, 0>> >>,
        face |-> << <<0, 1, 2>> >>] >>

NumMeshes == Len(InputMeshes)

\* The values the callers pass to the setters (doubles, held as integers).
Isovalues == {-1, 1}

Adaptivities == {1}

VoxelSizes == {0, 2}

\* What the output mesh may hold before volumeToMesh is called on it.
OutMeshes ==
    { EmptyMesh,
      [vert |-> << <<7, 7, 7>>, <<8, 8, 8>>, <<9, 9, 9>> >>,
       face |-> << <<0, 1, 2>>, <<2, 1, 0>> >>] }

\* ---- the soups openvdb::tools::volumeToMesh writes
\* Largest number of points, triangles and quads of an extracted soup.
MaxVerts == 4
MaxTris == 1
MaxQuads == 1

\* The soup of n points, nt triangles and nq quads: point k at a position of
\* its own, triangle k on the points k-1, k, k+1 and quad k on the points
\* k-1, k, k+1, k+2 (indices from 0, modulo n).
SoupVtx(n) == [k \in 1..n |-> <<k, k + 10, k + 20>>]

SoupTri(n, nt) == [k \in 1..nt |-> <<(k - 1) % n, k % n, (k + 1) % n>>]

SoupQuad(n, nq) ==
    [k \in 1..nq |-> <<(k - 1) % n, k % n, (k + 1) % n, (k + 2) % n>>]

\* A triangle needs 3 points and a quad 4.
SoupSizes ==
    { sz \in (0..MaxVerts) \X (0..MaxTris) \X (0..MaxQuads) :
        /\ sz[2] > 0 => sz[1] >= 3
        /\ sz[3] > 0 => sz[1] >= 4 }

Soups ==
    { [vtx |-> SoupVtx(sz[1]),
       tri |-> SoupTri(sz[1], sz[2]),
       quad |-> SoupQuad(sz[1], sz[3])] : sz \in SoupSizes }

EmptySoup == [vtx |-> <<>>, tri |-> <<>>, quad |-> <<>>]

\* The ways a call of the extraction kernel ends: it returns a soup, or it
\* throws, having cleared the output vectors (wrote) or not.
ExtractOutcomes ==
    { [threw |-> FALSE, wrote |-> TRUE, soup |-> sp] : sp \in Soups } \cup
    { [threw |-> TRUE, wrote |-> w, soup |-> EmptySoup] : w \in BOOLEAN }

\* Largest number of initialisations of the winding-number oracle followed.
MaxInits == 2

Ended(op, result) == [op |-> op, result |-> result]

\* A double that is a ratio of two of the integers the model holds: n / d, kept
\* as the pair (d = 0 is a division by zero).
Frac(n, d) == <<n, d>>

\* a + b
FracAdd(a, b) == <<a[1] * b[2] + b[1] * a[2], a[2] * b[2]>>

\* std::fabs(a)
FracAbs(a) == <<IF a[1] < 0 THEN -a[1] ELSE a[1], IF a[2] < 0 THEN -a[2] ELSE a[2]>>

\* The outer band added to the quotient whatever the sign of isovalue.
OuterBand_noclamp(iso, vs) == FracAdd(Frac(iso, vs), Frac(1, 2))

\* float outerBand = (isovalue > 0 ? isovalue/voxelSize : 0.0f) + 0.5f;
OuterBand(iso, vs) ==
    FracAdd(IF iso > 0 THEN Frac(iso, vs) ELSE Frac(0, 1), Frac(1, 2))

\* float innerBand = (isovalue < 0 ? (-isovalue)/voxelSize : 0.0f) + 0.5f;
InnerBand(iso, vs) ==
    FracAdd(IF iso < 0 THEN Frac(-iso, vs) ELSE Frac(0, 1), Frac(1, 2))

\* std::fabs(isovalue/voxelSize) + 1.0f
HalfWidth(iso, vs) == FracAdd(FracAbs(Frac(iso, vs)), Frac(1, 1))

\* A call of an openvdb kernel, with its numeric arguments; none was made.
KernelCall(fn, args) == [fn |-> fn, args |-> args]

NoKernelCall == KernelCall("none", <<>>)

\* setIsovalue, setAdaptivity, setVoxelSize, setMesh
SetIsovalue(v) ==
    /\ status = "running"
    /\ v # isovalue
    /\ isovalue' = v
    /\ kernelCall' = NoKernelCall
    /\ UNCHANGED <<mesh, mVtx, mTri, mQuad, grid, windingNumber, meshDataAdapter,
                   adaptivity, voxelSize, outMesh, status, last, built, extracted>>
    /\ UNCHANGED <<procvars, pfvars>>

SetAdaptivity(v) ==
    /\ status = "running"
    /\ v # adaptivity
    /\ adaptivity' = v
    /\ kernelCall' = NoKernelCall
    /\ UNCHANGED <<mesh, mVtx, mTri, mQuad, grid, windingNumber, meshDataAdapter,
                   isovalue, voxelSize, outMesh, status, last, built, extracted>>
    /\ UNCHANGED <<procvars, pfvars>>

SetVoxelSize(v) ==
    /\ status = "running"
    /\ v # voxelSize
    /\ voxelSize' = v
    /\ kernelCall' = NoKernelCall
    /\ UNCHANGED <<mesh, mVtx, mTri, mQuad, grid, windingNumber, meshDataAdapter,
                   isovalue, adaptivity, outMesh, status, last, built, extracted>>
    /\ UNCHANGED <<procvars, pfvars>>

SetMesh(id) ==
    /\ status = "running"
    /\ id # mesh
    /\ mesh' = id
    /\ kernelCall' = NoKernelCall
    /\ UNCHANGED <<mVtx, mTri, mQuad, grid, windingNumber, meshDataAdapter,
                   isovalue, adaptivity, voxelSize, outMesh, status, last, built,
                   extracted>>
    /\ UNCHANGED <<procvars, pfvars>>

\* The mesh a dereference of m reads: the bound mesh, or, m being null (undefined
\* behaviour), whatever mesh u the memory read happens to look like.
MeshRead(u) == IF mesh # 0 THEN mesh ELSE u

\* m is dereferenced while null and the read faults.
NullFault(u) == mesh = 0 /\ u = 0

\* u matters only when m is null: it is 0 otherwise.
ReadChoice(u) == mesh # 0 => u = 0

\* The assert letting a voxel size of zero through.
VoxelSizeCheck_ge0 == voxelSize >= 0

\* assert(voxelSize > 0);
VoxelSizeCheck == voxelSize > 0

\* meshToVolume(): the assert, the binding of the grid adapter, the oracle's
\* init on *m, and the kernel call, which returns a volume (ok) or throws.
MeshToVolume(u, ok) ==
    /\ status = "running"
    /\ ReadChoice(u)
    /\ IF ~VoxelSizeCheck
       THEN /\ status' = "aborted"
            /\ last' = Ended("meshToVolume", "aborted")
            /\ kernelCall' = NoKernelCall
            /\ UNCHANGED <<grid, windingNumber, meshDataAdapter, built>>
       ELSE /\ meshDataAdapter' = [m |-> IF mesh = 0 THEN "null" ELSE "bound",
                                    xform |-> "bound"]
            /\ IF NullFault(u)
               THEN /\ status' = "crashed"
                    /\ last' = Ended("meshToVolume", "crashed")
                    /\ kernelCall' = NoKernelCall
                    /\ UNCHANGED <<grid, windingNumber, built>>
               ELSE /\ windingNumber.inits < MaxInits
                    /\ windingNumber' = [inits |-> windingNumber.inits + 1]
                    /\ kernelCall' = KernelCall("meshToVolume",
                                                <<OuterBand(isovalue, voxelSize),
                                                  InnerBand(isovalue, voxelSize)>>)
                    /\ IF ok
                       THEN /\ grid' = "volume"
                            /\ built' = TRUE
                            /\ last' = Ended("meshToVolume", "ok")
                       ELSE /\ last' = Ended("meshToVolume", "threw")
                            /\ UNCHANGED <<grid, built>>
                    /\ UNCHANGED status
    /\ UNCHANGED <<mesh, mVtx, mTri, mQuad, isovalue, adaptivity, voxelSize,
                   outMesh, extracted>>
    /\ UNCHANGED <<procvars, pfvars>>

\* copyMeshVectors(): the vectors cleared, then filled from the mesh.
CopiedVtx(ms) == [i \in 1..Len(ms.vert) |-> <<ms.vert[i][1], ms.vert[i][2], ms.vert[i][3]>>]

CopiedTri(ms) == [i \in 1..Len(ms.face) |-> <<ms.face[i][1], ms.face[i][2], ms.face[i][3]>>]

\* The asserts of meshToLevelSet, on the vectors just copied.
LevelSetCheck(vtx, tri) == Len(vtx) > 0 /\ Len(tri) > 0 /\ voxelSize > 0

\* meshToLevelSet(): copyMeshVectors, the asserts and the kernel call, which
\* returns a volume (ok) or throws.
MeshToLevelSet(u, ok) ==
    /\ status = "running"
    /\ ReadChoice(u)
    /\ mQuad' = <<>>
    /\ IF NullFault(u)
       THEN /\ mVtx' = <<>> /\ mTri' = <<>>
            /\ status' = "crashed"
            /\ last' = Ended("meshToLevelSet", "crashed")
            /\ kernelCall' = NoKernelCall
            /\ UNCHANGED <<grid, built>>
       ELSE /\ mVtx' = CopiedVtx(InputMeshes[MeshRead(u)])
            /\ mTri' = CopiedTri(InputMeshes[MeshRead(u)])
            /\ IF ~LevelSetCheck(mVtx', mTri')
               THEN /\ status' = "aborted"
                    /\ last' = Ended("meshToLevelSet", "aborted")
                    /\ kernelCall' = NoKernelCall
                    /\ UNCHANGED <<grid, built>>
               ELSE /\ kernelCall' = KernelCall("meshToLevelSet",
                                                <<HalfWidth(isovalue, voxelSize)>>)
                    /\ IF ok
                       THEN /\ grid' = "levelset"
                            /\ built' = TRUE
                            /\ last' = Ended("meshToLevelSet", "ok")
                       ELSE /\ last' = Ended("meshToLevelSet", "threw")
                            /\ UNCHANGED <<grid, built>>
                    /\ UNCHANGED status
    /\ UNCHANGED <<mesh, windingNumber, meshDataAdapter, isovalue, adaptivity,
                   voxelSize, outMesh, extracted>>
    /\ UNCHANGED <<procvars, pfvars>>

\* outMesh.Clear()
Clear(ms) == EmptyMesh

\* Allocator<MeshType>::AddVertices(ms, n): n new vertices after the old ones.
AddVertices(ms, n) ==
    [ms EXCEPT !.vert = @ \o [k \in 1..n |-> <<0, 0, 0>>]]

\* Allocator<MeshType>::AddFaces(ms, n): n new faces after the old ones, their
\* vertex pointers not set.
AddFaces(ms, n) ==
    [ms EXCEPT !.face = @ \o [k \in 1..n |-> <<"unset", "unset", "unset">>]]

\* AddVertices(outMesh, mVtx.size())
VertexCount(vtx) == Len(vtx)

\* The face count with one face per quad.
FaceCount_onePerQuad(tri, quad) == Len(tri) + Len(quad)

\* AddFaces(outMesh, mTri.size() + mQuad.size() * 2)
FaceCount(tri, quad) == Len(tri) + Len(quad) * 2

\* vi->P()[j] = (ScalarType) mVtx[i][j], j = 0, 1, 2
CopiedPosition(p) == <<p[1], p[2], p[3]>>

\* fi->V(0) = &vert[mTri[i][2]]; V(1) = &vert[mTri[i][1]]; V(2) = &vert[mTri[i][0]]
TriFace(tr) == <<tr[3], tr[2], tr[1]>>

\* The first face of a quad: (mQuad[i][2], mQuad[i][1], mQuad[i][0]).
QuadFace1(q) == <<q[3], q[2], q[1]>>

\* The second face of a quad closed on its second corner.
QuadFace2_dcb(q) == <<q[4], q[3], q[2]>>

\* The second face of a quad: (mQuad[i][3], mQuad[i][2], mQuad[i][0]).
QuadFace2(q) == <<q[4], q[3], q[1]>>

\* The three loops of volumeToMesh on the mesh ms, allocated with first new
\* vertex vi and first new face fi (positions in ms.vert and ms.face): the
\* k-th written vertex is vertex vi+k, the triangles' faces come first, then
\* two faces a quad. A write past the allocated elements is dropped.
Filled(ms, vi, fi, vtx, tri, quad) ==
    [vert |-> [k \in 1..Len(ms.vert) |->
                  IF k >= vi /\ k - vi + 1 <= Len(vtx)
                  THEN CopiedPosition(vtx[k - vi + 1])
                  ELSE ms.vert[k]],
     face |-> [k \in 1..Len(ms.face) |->
                  LET n == k - fi + 1 IN
                  IF n >= 1 /\ n <= Len(tri) THEN TriFace(tri[n])
                  ELSE IF n > Len(tri) /\ n <= Len(tri) + 2 * Len(quad)
                  THEN IF (n - Len(tri)) % 2 = 1
                       THEN QuadFace1(quad[(n - Len(tri) + 1) \div 2])
                       ELSE QuadFace2(quad[(n - Len(tri)) \div 2])
                  ELSE ms.face[k]]]

\* volumeToMesh without its assert.
GridCheck_off == TRUE

\* assert(grid);
GridCheck == grid # "null"

\* The output mesh after Clear, AddVertices, AddFaces and the three loops.
Reconstructed(ms, vtx, tri, quad) ==
    LET cleared == Clear(ms)
        vi == Len(cleared.vert) + 1
        withVerts == AddVertices(cleared, VertexCount(vtx))
        fi == Len(withVerts.face) + 1
        withFaces == AddFaces(withVerts, FaceCount(tri, quad))
    IN  Filled(withFaces, vi, fi, vtx, tri, quad)

\* volumeToMesh(outMesh): the assert, the extraction kernel writing the soup
\* buffers (outcome o), and the rebuilding of outMesh from them.
VolumeToMesh(o) ==
    /\ status = "running"
    /\ IF ~GridCheck
       THEN /\ status' = "aborted"
            /\ last' = Ended("volumeToMesh", "aborted")
            /\ kernelCall' = NoKernelCall
            /\ UNCHANGED <<mVtx, mTri, mQuad, outMesh, extracted>>
       ELSE /\ extracted' = TRUE
            /\ kernelCall' = KernelCall("volumeToMesh",
                                        <<Frac(isovalue, 1), Frac(adaptivity, 1)>>)
            /\ UNCHANGED status
            /\ IF o.threw
               THEN /\ mVtx' = IF o.wrote THEN <<>> ELSE mVtx
                    /\ mTri' = IF o.wrote THEN <<>> ELSE mTri
                    /\ mQuad' = IF o.wrote THEN <<>> ELSE mQuad
                    /\ last' = Ended("volumeToMesh", "threw")
                    /\ UNCHANGED outMesh
               ELSE /\ mVtx' = o.soup.vtx
                    /\ mTri' = o.soup.tri
                    /\ mQuad' = o.soup.quad
                    /\ outMesh' = Reconstructed(outMesh, o.soup.vtx, o.soup.tri,
                                                o.soup.quad)
                    /\ last' = Ended("volumeToMesh", "ok")
    /\ UNCHANGED <<mesh, grid, windingNumber, meshDataAdapter, isovalue,
                   adaptivity, voxelSize, built>>
    /\ UNCHANGED <<procvars, pfvars>>

\* --------------------------------------------------------- specifications
vars == <<env, hw, instance, call, pc, loop_size, min_parallel, nthreads, slice,
          i1, i2, t, pool, joined, acc_t, log, ret, mesh, mVtx, mTri, mQuad,
          grid, windingNumber, meshDataAdapter, isovalue, adaptivity, voxelSize,
          outMesh, status, last, built, extracted, kernelCall>>

\* The process before any call: the singleton is not constructed.
InitProcess ==
    /\ instance = [constructed |-> FALSE, m_num_threads |-> 0]
    /\ call = NoCall

\* No parallel_for call is running.
InitParallelFor ==
    /\ pc = "idle"
    /\ loop_size = 0 /\ min_parallel = 0 /\ nthreads = 0 /\ slice = 0
    /\ i1 = 0 /\ i2 = 0 /\ t = 0
    /\ pool = <<>>
    /\ joined = 0 /\ acc_t = 0
    /\ log = <<>>
    /\ ret = "none"

\* An OpenVDBAdapter as its constructor and member initialisers leave it.
InitAdapter ==
    /\ mesh = 0
    /\ mVtx = <<>> /\ mTri = <<>> /\ mQuad = <<>>
    /\ grid = "null"
    /\ windingNumber = [inits |-> 0]
    /\ meshDataAdapter = [m |-> "null", xform |-> "null"]
    /\ isovalue = 0
    /\ adaptivity = 0
    /\ voxelSize = -1
    /\ status = "running"
    /\ last = Ended("none", "none")
    /\ built = FALSE
    /\ extracted = FALSE
    /\ kernelCall = NoKernelCall

Init ==
    /\ env \in EnvValues
    /\ hw \in 0..MaxHardware
    /\ InitProcess
    /\ InitParallelFor
    /\ InitAdapter
    /\ outMesh = EmptyMesh

\* The thread-count singleton over a process lifetime.
NextThreads ==
    \/ \E u \in 0..MaxUser : DefaultNumThreadsCall(u)
    \/ \E e \in EnvValues : Setenv(e)
    \/ \E h \in 0..MaxHardware : HardwareChange(h)

SpecThreads == Init /\ [][NextThreads]_vars

\* Calls of parallel_for, one after the other, in a process.
NextPF ==
    \/ ParallelForEmpty
    \/ \E ls \in 1..MaxLoopSize, mp \in MinParallelValues : ParallelForSerial(ls, mp)
    \/ \E ls \in 1..MaxLoopSize, mp \in MinParallelValues : ParallelForBegin(ls, mp)
    \/ SpawnSlice
    \/ SpawnLast
    \/ \E w \in 1..MaxLoopSize : WorkerStep(w)
    \/ Join
    \/ JoinDone
    \/ AccumStep
    \/ ReturnTrue
    \/ Return

SpecPF == Init /\ [][NextPF]_vars

\* One adapter, used by a caller that owns one output mesh.
InitVDB ==
    /\ env = NoEnv
    /\ hw = 0
    /\ InitProcess
    /\ InitParallelFor
    /\ InitAdapter
    /\ outMesh \in OutMeshes

NextVDB ==
    \/ \E v \in Isovalues : SetIsovalue(v)
    \/ \E v \in Adaptivities : SetAdaptivity(v)
    \/ \E v \in VoxelSizes : SetVoxelSize(v)
    \/ \E id \in 0..NumMeshes : SetMesh(id)
    \/ \E u \in 0..NumMeshes, ok \in BOOLEAN : MeshToVolume(u, ok)
    \/ \E u \in 0..NumMeshes, ok \in BOOLEAN : MeshToLevelSet(u, ok)
    \/ \E o \in ExtractOutcomes : VolumeToMesh(o)

SpecVDB == InitVDB /\ [][NextVDB]_vars

\* ------------------------------------------------- properties: parallel_for
IsBody(e) == e[1] = "body"

IsAccumulate(e) == e[1] = "accumulate"

IsPrepare(e) == e[1] = "prepare"

\* The positions of the log holding a call body(i, .).
BodyCallsOf(i) == {n \in 1..Len(log) : IsBody(log[n]) /\ log[n][2] = i}

\* The parallel branch was taken by the current (or latest) call.
InParallel == pc \in {"spawn", "join", "accum"} \/ ret = "true"

\* ... and every worker has been spawned.
AllSpawned == pc \in {"join", "accum"} \/ ret = "true"

\* ... and every worker has been joined.
AllJoined == pc = "accum" \/ ret = "true"

SliceSize(j) == pool[j].k2 - pool[j].k1

\* C1: in the parallel path the slices handed to the workers are contiguous,
\* non-empty ranges that start at 0, follow one another without gap or overlap
\* and end at loop_size; every body call carries an index of the slice of the
\* worker making it, a worker passes its indices in strictly increasing order,
\* no index is passed twice, and once all workers are joined every index of
\* [0, loop_size) has been passed to body exactly once.
C1_SlicesPartitionRange ==
    /\ InParallel => nthreads >= 2 /\ loop_size >= 1
    /\ AllSpawned =>
          /\ Len(pool) >= 1
          /\ pool[1].k1 = 0
          /\ pool[Len(pool)].k2 = loop_size
          /\ \A j \in 1..Len(pool) : pool[j].k1 < pool[j].k2
          /\ \A j \in 1..(Len(pool) - 1) : pool[j + 1].k1 = pool[j].k2
    /\ InParallel =>
          /\ \A n \in 1..Len(log) : IsBody(log[n]) =>
                /\ log[n][2] \in 0..(loop_size - 1)
                /\ \E j \in 1..Len(pool) :
                      /\ pool[j].t = log[n][3]
                      /\ pool[j].k1 <= log[n][2] /\ log[n][2] < pool[j].k2
                /\ Cardinality(BodyCallsOf(log[n][2])) = 1
          /\ \A n, m \in 1..Len(log) :
                (n < m /\ IsBody(log[n]) /\ IsBody(log[m]) /\ log[n][3] = log[m][3])
                    => log[n][2] < log[m][2]
    /\ AllJoined =>
          \A i \in 0..(loop_size - 1) : Cardinality(BodyCallsOf(i)) = 1

\* A finished parallel call with three slices whose bodies ran interleaved:
\* the first body call in the log is not the one of index 0.
C1_Witness ==
    /\ pc = "done" /\ ret = "true"
    /\ Len(pool) >= 3
    /\ loop_size = MaxLoopSize
    /\ log[2] # Body(0, 0)

\* C2: a call with loop_size = 0 calls none of prep_func, func, accum_func,
\* creates no thread and returns false, whatever min_parallel and the thread
\* count are.
C2_EmptyLoopNoOp ==
    (pc = "done" /\ loop_size = 0) =>
        /\ log = <<>>
        /\ pool = <<>>
        /\ ret = "false"

\* An empty loop run with min_parallel = 0 in a process whose thread count
\* is already resolved to more than one thread.
C2_Witness ==
    /\ pc = "done" /\ loop_size = 0 /\ min_parallel = 0
    /\ instance.constructed /\ instance.m_num_threads >= 2

C4_PrepareBodiesJoinAccumulate ==
    InParallel =>
        /\ Len(log) >= 1
        /\ log[1] = <<"prepare", nthreads>>
        /\ \A n \in 2..Len(log) : ~IsPrepare(log[n])
        /\ \A n, m \in 1..Len(log) :
              (n < m /\ IsAccumulate(log[n])) => IsAccumulate(log[m])
        /\ (\E n \in 1..Len(log) : IsAccumulate(log[n])) =>
              /\ \A j \in 1..Len(pool) : pool[j].k = pool[j].k2
              /\ \A i \in 0..(loop_size - 1) : BodyCallsOf(i) # {}
        /\ \A n \in 1..Len(log) : IsAccumulate(log[n]) =>
              /\ n = 1 + loop_size + log[n][2] + 1
              /\ log[n][2] \in 0..(nthreads - 1)
        /\ ret = "true" => Len(log) = 1 + loop_size + nthreads

\* A finished parallel call that spawned fewer workers than W, so some
\* accumulate(t) is for a worker id that never ran.
C4_Witness ==
    /\ pc = "done" /\ ret = "true"
    /\ Len(pool) < nthreads
    /\ log[Len(log)] = <<"accumulate", nthreads - 1>>

C6_FirstResolutionPriority ==
    (call.made /\ call.first) =>
        /\ call.ret >= 1
        /\ call.user # 0 => call.ret = call.user
        /\ (call.user = 0 /\ call.env.isset /\ Atoi(call.env.str) > 0)
              => call.ret = Atoi(call.env.str)
        /\ (call.user = 0 /\ ~(call.env.isset /\ Atoi(call.env.str) > 0)
                /\ call.hw # 0)
              => call.ret = call.hw
        /\ (call.user = 0 /\ ~(call.env.isset /\ Atoi(call.env.str) > 0)
                /\ call.hw = 0)
              => call.ret = 8

\* A first resolution that fell through a set but non-positive environment
\* value and a zero hardware report to the fallback.
C6_Witness ==
    /\ call.made /\ call.first
    /\ call.user = 0 /\ call.env.isset /\ call.env.str # <<>> /\ call.hw = 0
    /\ call.ret = 8

\* C7 as stated: a later call without override returns the memoized value and
\* a later call with a nonzero override returns the override.
C7_Original_OverridePerCall ==
    (call.made /\ ~call.first) =>
        /\ call.user = 0 => call.ret = instance.m_num_threads
        /\ call.user # 0 => call.ret = call.user

\* Every call after the first returns the memoized value, with or without an
\* override.
C7_LaterCallsReturnMemo ==
    (call.made /\ ~call.first) => call.ret = instance.m_num_threads

\* C7 (amended): once resolved, the memoized value never changes (not by a
\* change of the environment or of the hardware value, not by a later call)
\* and every later call returns it, whether or not it passes an override.
C7_MemoizedFirstCallWins ==
    /\ []C7_LaterCallsReturnMemo
    /\ [][instance.constructed => instance' = instance]_vars

\* A later call passed a nonzero override and got another value back.
C7_Witness ==
    /\ call.made /\ ~call.first
    /\ call.user # 0 /\ call.ret # call.user
    /\ env # call.env

\* ---------------------------------------------- properties: OpenVDBAdapter
\* The latest conversion called was a volumeToMesh that returned.
Extracted == last = Ended("volumeToMesh", "ok")

\* C8: when volumeToMesh has returned, the output mesh has as many vertices as
\* the extracted soup has points and |triangles| + 2 |quads| faces, whatever
\* it held before, the empty soup giving the empty mesh with the adapter still
\* running; vertex k has the position of point k.
C8_ReconstructedCounts ==
    Extracted =>
        /\ status = "running"
        /\ Len(outMesh.vert) = Len(mVtx)
        /\ Len(outMesh.face) = Len(mTri) + 2 * Len(mQuad)
        /\ \A k \in 1..Len(mVtx) : outMesh.vert[k] = mVtx[k]
        /\ (mVtx = <<>> /\ mTri = <<>> /\ mQuad = <<>>) => outMesh = EmptyMesh

\* An extraction of four points, a triangle and a quad was rebuilt.
C8_Witness ==
    /\ Extracted
    /\ Len(mVtx) = 4 /\ Len(mTri) = 1 /\ Len(mQuad) = 1
    /\ Len(outMesh.face) = 3

\* C9: when volumeToMesh has returned, face i is triangle i reversed, (c,b,a),
\* and the faces |triangles|+2j and |triangles|+2j+1 (counted from 0) are
\* (c,b,a) and (d,c,a) of quad j = (a,b,c,d), so quad (0,1,2,3) gives (2,1,0)
\* and (3,2,0); every face refers to vertices of the output mesh.
C9_ReversedWinding ==
    Extracted =>
        /\ \A i \in 1..Len(mTri) :
              outMesh.face[i] = <<mTri[i][3], mTri[i][2], mTri[i][1]>>
        /\ \A j \in 1..Len(mQuad) :
              /\ outMesh.face[Len(mTri) + 2 * j - 1]
                    = <<mQuad[j][3], mQuad[j][2], mQuad[j][1]>>
              /\ outMesh.face[Len(mTri) + 2 * j]
                    = <<mQuad[j][4], mQuad[j][3], mQuad[j][1]>>
              /\ mQuad[j] = <<0, 1, 2, 3>> =>
                    /\ outMesh.face[Len(mTri) + 2 * j - 1] = <<2, 1, 0>>
                    /\ outMesh.face[Len(mTri) + 2 * j] = <<3, 2, 0>>
        /\ \A k \in 1..Len(outMesh.face) : \A c \in 1..3 :
              outMesh.face[k][c] \in 0..(Len(outMesh.vert) - 1)

\* The quad (0,1,2,3) was extracted after one triangle.
C9_Witness ==
    /\ Extracted
    /\ Len(mTri) = 1
    /\ Len(mQuad) >= 1 /\ mQuad[1] = <<0, 1, 2, 3>>

\* Some call of volumeToMesh.
VolumeToMeshCall == \E o \in ExtractOutcomes : VolumeToMesh(o)

\* C10: the extraction kernel has been invoked only if a build kernel has
\* returned a volume before; a call of volumeToMesh made when none has aborts
\* and leaves the output mesh and the soup buffers as they were.
C10_ExtractionNeedsBuild ==
    /\ [](extracted => built)
    /\ [][(~built /\ VolumeToMeshCall) =>
              /\ status' = "aborted"
              /\ ~extracted'
              /\ UNCHANGED <<outMesh, mVtx, mTri, mQuad>>]_vars

\* volumeToMesh aborted on an adapter whose only build had failed, with mesh
\* data in the buffers and a filled output mesh.
C10_Witness ==
    /\ last = Ended("volumeToMesh", "aborted")
    /\ ~built
    /\ mVtx # <<>>
    /\ outMesh # EmptyMesh

\* Some call of meshToVolume, of meshToLevelSet.
MeshToVolumeCall == \E u \in 0..NumMeshes, ok \in BOOLEAN : MeshToVolume(u, ok)

MeshToLevelSetCall ==
    \E u \in 0..NumMeshes, ok \in BOOLEAN : MeshToLevelSet(u, ok)

\* A mesh is bound and it has no vertex or no face.
EmptyInput ==
    /\ mesh # 0
    /\ InputMeshes[mesh].vert = <<>> \/ InputMeshes[mesh].face = <<>>

\* C11: a call of meshToVolume made with voxelSize <= 0 (the default -1
\* included) aborts, and so does a call of meshToLevelSet made with
\* voxelSize <= 0 or on a bound mesh without vertices or without faces (with
\* no mesh bound the call may crash before it aborts); no such call invokes a
\* kernel or changes the volume held, and an aborted adapter has invoked no
\* kernel in the call that aborted it. (A call of a build leaves the build's
\* name in last.)
C11_BuildPreconditions ==
    /\ [][(voxelSize <= 0 /\ last'.op = "meshToVolume" /\ MeshToVolumeCall) =>
              /\ status' = "aborted"
              /\ kernelCall' = NoKernelCall
              /\ UNCHANGED <<grid, built>>]_vars
    /\ [][((voxelSize <= 0 \/ EmptyInput) /\ last'.op = "meshToLevelSet"
                /\ MeshToLevelSetCall) =>
              /\ status' # "running"
              /\ mesh # 0 => status' = "aborted"
              /\ kernelCall' = NoKernelCall
              /\ UNCHANGED <<grid, built>>]_vars
    /\ [](status = "aborted" => kernelCall = NoKernelCall)

\* meshToVolume aborted on the default voxel size, a triangle being bound.
C11_Witness ==
    /\ last = Ended("meshToVolume", "aborted")
    /\ voxelSize = -1
    /\ mesh = 3

\* The latest build or extraction ended with the kernel's exception.
BuildFailed ==
    last \in {Ended("meshToVolume", "threw"), Ended("meshToLevelSet", "threw")}

ExtractionFailed == last = Ended("volumeToMesh", "threw")

\* C12: once a build has ended with the kernel's exception the adapter holds no
\* volume, so that a volumeToMesh called next invokes no extraction kernel,
\* also when an earlier build had returned a volume; and a volumeToMesh that
\* ends with the extraction kernel's exception leaves the output mesh as it
\* was before the call.
C12_NoPartialStateOnFailure ==
    /\ [](BuildFailed => ~GridCheck)
    /\ [][(BuildFailed /\ VolumeToMeshCall) =>
              kernelCall' = NoKernelCall]_vars
    /\ [][(ExtractionFailed' /\ VolumeToMeshCall) => outMesh' = outMesh]_vars

\* a = b and a <= b for two ratios of positive denominators.
FracEq(a, b) == a[1] * b[2] = b[1] * a[2]

FracLE(a, b) == a[1] * b[2] <= b[1] * a[2]

\* C13: the kernel call of meshToVolume carries outer = max(isovalue,0) /
\* voxelSize + 1/2 and inner = max(-isovalue,0) / voxelSize + 1/2 of the
\* isovalue and voxelSize the adapter held in that call, both at least 1/2 and
\* one of them equal to 1/2; the kernel call of meshToLevelSet carries
\* |isovalue| / voxelSize + 1.
C13_BandWidths ==
    /\ kernelCall.fn = "meshToVolume" =>
          LET outer == kernelCall.args[1]
              inner == kernelCall.args[2]
          IN  /\ voxelSize > 0 /\ outer[2] > 0 /\ inner[2] > 0
              /\ FracEq(outer, <<2 * Max(isovalue, 0) + voxelSize, 2 * voxelSize>>)
              /\ FracEq(inner, <<2 * Max(-isovalue, 0) + voxelSize, 2 * voxelSize>>)
              /\ FracLE(<<1, 2>>, outer) /\ FracLE(<<1, 2>>, inner)
              /\ FracEq(outer, <<1, 2>>) \/ FracEq(inner, <<1, 2>>)
    /\ kernelCall.fn = "meshToLevelSet" =>
          LET width == kernelCall.args[1]
          IN  /\ voxelSize > 0 /\ width[2] > 0
              /\ FracEq(width, <<Max(isovalue, -isovalue) + voxelSize, voxelSize>>)

\* meshToVolume called its kernel with isovalue -1 and voxelSize 2: the outer
\* band is 1/2 and the inner band 1.
C13_Witness ==
    /\ kernelCall.fn = "meshToVolume"
    /\ isovalue = -1 /\ voxelSize = 2
    /\ FracEq(kernelCall.args[1], <<1, 2>>)
    /\ FracEq(kernelCall.args[2], <<1, 1>>)

\* C14: a build called while no mesh is bound is stopped by an assert, no null
\* pointer is ever dereferenced, and the kernel of meshToVolume, which reads
\* the mesh through polygonCount, pointCount and getIndexSpacePoint, is only
\* called with a grid adapter whose mesh and transform are bound.
C14_UnboundFailsFast ==
    /\ [][(mesh = 0 /\ (MeshToVolumeCall \/ MeshToLevelSetCall)) =>
              status' = "aborted"]_vars
    /\ [](status # "crashed")
    /\ [](kernelCall.fn = "meshToVolume" =>
              meshDataAdapter.m # "null" /\ meshDataAdapter.xform # "null")

\* C15: the adapter's oracle is initialised at most once, whatever builds are
\* called, and the kernel of meshToVolume, the only caller of the oracle's
\* evaluation, runs only when the oracle has been initialised exactly once.
C15_OracleInitOnce ==
    /\ windingNumber.inits <= 1
    /\ kernelCall.fn = "meshToVolume" => windingNumber.inits = 1

\* C16: in the parallel path, W being the value passed to prepare, at most W
\* threads are created, at least one once the spawning is over, the j-th
\* created carries the worker id j-1, so that the ids of the threads are
\* pairwise distinct and below W; every body call carries the id of a created
\* thread and an index of that thread's slice; and when the call has returned
\* every id a body call carried is the argument of a later accumulate call.
C16_DistinctWorkerIds ==
    InParallel =>
        LET W == log[1][2] IN
        /\ IsPrepare(log[1])
        /\ Len(pool) <= W
        /\ AllSpawned => Len(pool) >= 1
        /\ \A j \in 1..Len(pool) : pool[j].t = j - 1
        /\ \A j, m \in 1..Len(pool) : pool[j].t = pool[m].t => j = m
        /\ \A n \in 1..Len(log) : IsBody(log[n]) =>
              /\ log[n][3] \in 0..(Len(pool) - 1)
              /\ log[n][3] < W
              /\ log[n][2] >= pool[log[n][3] + 1].k1
              /\ log[n][2] < pool[log[n][3] + 1].k
        /\ ret = "true" =>
              \A n \in 1..Len(log) : IsBody(log[n]) =>
                  \E m \in (n + 1)..Len(log) : log[m] = Accumulate(log[n][3])

\* A call has returned in which as many threads as W = 3 were created and the
\* workers 0 and 2 both called body.
C16_Witness ==
    /\ pc = "done" /\ ret = "true"
    /\ nthreads = 3 /\ Len(pool) = 3
    /\ \E n, m \in 1..Len(log) :
          /\ IsBody(log[n]) /\ log[n][3] = 0
          /\ IsBody(log[m]) /\ log[m][3] = 2

====
